---- MODULE Spec2Model ----
(***************************************************************************)
(* A model of msgraph-async: the OData query serializer                    *)
(* (msgraph_async/common/odata_query.py) and the Graph client              *)
(* (msgraph_async/client/client.py): token management, the authorized      *)
(* request pipeline and the paginated list_all_* generators.               *)
(*                                                                         *)
(* Python strings are sequences of one-character strings, so that lower(), *)
(* startswith(), join() and str(int) are computed character by character.  *)
(***************************************************************************)
EXTENDS Integers, Sequences, FiniteSets, TLC

VARIABLES
    \* ---- odata_query.py ----
    q,        \* the ODataQuery object: _count, _expand, _filter, _select, _top
    flt,      \* the Filter object: _constrains, _logical_connector
    qres,     \* outcome of the last setter call: "none", "ok" or "ValueError"
    out,      \* outcome of the last str(query): [called, exc, s]
    built,    \* outcome of the last _build_url call and its arguments
    \* ---- client.py: GraphClient._request on its own ----
    rq,       \* the _request call in flight: [pc, expected]
    rs,       \* the outcome of the last _request call
    \* ---- client.py: GraphClient ----
    token,    \* _token: None or a str
    managed,  \* _managed
    interval, \* _token_refresh_interval_sec
    jobs,     \* the jobs added to _scheduler: a sequence of [seconds, busy]
    running,  \* _scheduler has been started
    mpc,      \* each manage_token caller: "idle", or "acquiring" while its
              \* token request is in flight
    ev,       \* the outcome of the last client operation: [op, res, exc, tok]
    call,     \* the endpoint call of the foreground task: its position (pc), its
              \* keyword arguments and the request it sent
    gen,      \* the list_all_* generator of the foreground task
    pages     \* the pages the server holds for that generator

queryVars == <<q, flt, qres, out, built>>
reqVars == <<rq, rs>>
tokenVars == <<token, managed, interval, jobs, running, mpc, ev>>
apiVars == <<call, gen, pages>>

vars == <<q, flt, qres, out, built, rq, rs,
          token, managed, interval, jobs, running, mpc, ev, call, gen, pages>>

-----------------------------------------------------------------------------
(* Python strings                                                          *)

UpperAlpha == <<"A","B","C","D","E","F","G","H","I","J","K","L","M",
                "N","O","P","Q","R","S","T","U","V","W","X","Y","Z">>
LowerAlpha == <<"a","b","c","d","e","f","g","h","i","j","k","l","m",
                "n","o","p","q","r","s","t","u","v","w","x","y","z">>

\* str.lower() on one character
LowerChar(c) ==
    IF \E i \in 1..Len(UpperAlpha) : UpperAlpha[i] = c
    THEN LowerAlpha[CHOOSE i \in 1..Len(UpperAlpha) : UpperAlpha[i] = c]
    ELSE c

\* str.lower()
Lower(s) == [i \in 1..Len(s) |-> LowerChar(s[i])]

\* str.startswith(prefix)
StartsWith(s, prefix) ==
    /\ Len(s) >= Len(prefix)
    /\ SubSeq(s, 1, Len(prefix)) = prefix

Digits == <<"0","1","2","3","4","5","6","7","8","9">>

RECURSIVE NatToStr(_)
NatToStr(n) ==
    IF n < 10 THEN <<Digits[n + 1]>>
    ELSE NatToStr(n \div 10) \o <<Digits[(n % 10) + 1]>>

\* str(int)
IntToStr(n) == IF n < 0 THEN <<"-">> \o NatToStr(0 - n) ELSE NatToStr(n)

\* str(bool)
BoolToStr(b) == IF b THEN <<"T","r","u","e">> ELSE <<"F","a","l","s","e">>

\* sep.join(list)
RECURSIVE Join(_, _)
Join(sep, l) ==
    IF l = <<>> THEN <<>>
    ELSE IF Len(l) = 1 THEN l[1]
    ELSE l[1] \o sep \o Join(sep, Tail(l))

-----------------------------------------------------------------------------
(* Python values handed to the setters. A value carries its type tag and   *)
(* one payload field per type; the fields of the other types hold fixed    *)
(* defaults.                                                               *)
(*   t = "NoneType" | "bool" | "int" | "str" | "list" | "Filter"           *)
(*       | "LogicalConnector"                                              *)
(* A list element is [t, s, c]: a str (s) or a Constrain (c).              *)

NoConstrain == [attribute |-> <<>>, op |-> "NONE", value |-> <<>>]

PyVal(t, b, i, s, l) == [t |-> t, b |-> b, i |-> i, s |-> s, l |-> l]

None      == PyVal("NoneType", FALSE, 0, <<>>, <<>>)
PyBool(b) == PyVal("bool", b, 0, <<>>, <<>>)
PyInt(i)  == PyVal("int", FALSE, i, <<>>, <<>>)
PyStr(s)  == PyVal("str", FALSE, 0, s, <<>>)
PyList(l) == PyVal("list", FALSE, 0, <<>>, l)
\* a reference to the Filter object flt
PyFilter  == PyVal("Filter", FALSE, 0, <<>>, <<>>)
\* a LogicalConnector member, by its name
PyConn(n) == PyVal("LogicalConnector", FALSE, 0, n, <<>>)

StrElem(s) == [t |-> "str", s |-> s, c |-> NoConstrain]
ConElem(c) == [t |-> "Constrain", s |-> <<>>, c |-> c]

\* Python truthiness (bool(x)): None, False, 0, '' and [] are falsy; a Filter
\* defines neither __bool__ nor __len__, so it is always truthy.
Truthy(v) ==
    CASE v.t = "NoneType" -> FALSE
      [] v.t = "bool"     -> v.b
      [] v.t = "int"      -> v.i # 0
      [] v.t = "str"      -> v.s # <<>>
      [] v.t = "list"     -> v.l # <<>>
      [] OTHER            -> TRUE

-----------------------------------------------------------------------------
(* odata_query.py                                                          *)

\* LogicalOperator: each member's template, formatted with attribute and val
Template(op, attribute, val) ==
    CASE op = "EQ" -> attribute \o <<" ","e","q"," ">> \o val
      [] op = "NE" -> attribute \o <<" ","n","e"," ">> \o val
      [] op = "LT" -> attribute \o <<" ","l","t"," ">> \o val
      [] op = "GT" -> attribute \o <<" ","g","t"," ">> \o val
      [] op = "LE" -> attribute \o <<" ","l","e"," ">> \o val
      [] op = "GE" -> attribute \o <<" ","g","e"," ">> \o val
      [] op = "STARTS_WITH" ->
            <<"s","t","a","r","t","s","W","i","t","h","(">> \o attribute
                \o <<","," ">> \o val \o <<")">>
      [] op = "ENDS_WITH" ->
            <<"e","n","d","s","W","i","t","h","(">> \o attribute
                \o <<","," ">> \o val \o <<")">>

LogicalOperators ==
    {"EQ", "NE", "LT", "GT", "LE", "GE", "STARTS_WITH", "ENDS_WITH"}

\* Constrain.__init__
Constrain(attribute, logical_operator, value) ==
    [attribute |-> attribute, op |-> logical_operator, value |-> value]

\* Constrain.__str__
ConstrainStr(c) == Template(c.op, c.attribute, c.value)

\* Filter.__init__
NewFilter == [constrains |-> None, logical_connector |-> None]

\* ODataQuery.__init__
NewQuery ==
    [count |-> None, expand |-> None, filter |-> None, select |-> None,
     top |-> None]

\* The result of a call that returns a string or raises
Returned(s) == [called |-> TRUE, exc |-> "", s |-> s]
Raised(e)   == [called |-> TRUE, exc |-> e, s |-> <<>>]
NotCalled   == [called |-> FALSE, exc |-> "", s |-> <<>>]

\* ODataQuery._build_filter, from constraint i on, with res accumulated so far.
\* The connector's name is read only between two constraints.
RECURSIVE BuildFilterFrom(_, _, _)
BuildFilterFrom(f, i, res) ==
    IF i > Len(f.constrains.l) THEN Returned(res)
    ELSE IF res # <<>> /\ f.logical_connector.t # "LogicalConnector"
         THEN Raised("AttributeError")
    ELSE LET sep == IF res # <<>>
                    THEN <<" ">> \o Lower(f.logical_connector.s) \o <<" ">>
                    ELSE <<>>
         IN  BuildFilterFrom(f, i + 1,
                             res \o sep \o ConstrainStr(f.constrains.l[i].c))

BuildFilter(f) == BuildFilterFrom(f, 1, <<>>)

EmptyQueryText ==
    <<"E","M","P","T","Y"," ","O","P","E","N"," ","D","A","T","A"," ",
      "Q","U","E","R","Y">>

\* The key=value pairs ODataQuery.__str__ appends to res, in order
CountPart(qq) ==
    IF Truthy(qq.count)
    THEN << <<"$","c","o","u","n","t","=">> \o Lower(BoolToStr(qq.count.b)) >>
    ELSE <<>>

ExpandPart(qq) ==
    IF Truthy(qq.expand)
    THEN << <<"$","e","x","p","a","n","d","=">> \o Lower(qq.expand.s) >>
    ELSE <<>>

FilterPart(qq, f) ==
    IF Truthy(qq.filter) /\ Truthy(f.constrains)
    THEN << <<"$","f","i","l","t","e","r","=">> \o BuildFilter(f).s >>
    ELSE <<>>

SelectPart(qq) ==
    IF Truthy(qq.select)
    THEN << <<"$","s","e","l","e","c","t","=">>
             \o Join(<<",">>, [i \in 1..Len(qq.select.l) |-> qq.select.l[i].s]) >>
    ELSE <<>>

TopPart(qq) ==
    IF Truthy(qq.top)
    THEN << <<"$","t","o","p","=">> \o IntToStr(qq.top.i) >>
    ELSE <<>>

\* ODataQuery.__str__ of query qq whose filter, when set, is the Filter f
QueryStr(qq, f) ==
    IF /\ ~Truthy(qq.count) /\ ~Truthy(qq.expand) /\ ~Truthy(qq.filter)
       /\ ~Truthy(qq.select) /\ ~Truthy(qq.top)
    THEN Returned(EmptyQueryText)
    ELSE IF /\ Truthy(qq.filter) /\ Truthy(f.constrains)
            /\ BuildFilter(f).exc # ""
         THEN Raised(BuildFilter(f).exc)
    ELSE Returned(<<"?">> \o Join(<<"&">>,
            CountPart(qq) \o ExpandPart(qq) \o FilterPart(qq, f)
                \o SelectPart(qq) \o TopPart(qq)))

-----------------------------------------------------------------------------
(* client.py: GraphClient._build_url                                       *)

\* msgraph_async.common.constants: the base URL, the version segment and the
\* resource segments
GRAPH_BASE_URL == <<"h","t","t","p","s",":","/","/","g","/">>
V1_EP == <<"v","1",".","0">>
USERS == <<"/","u","s","e","r","s">>
MAILS == <<"/","m","e","s","s","a","g","e","s">>

\* `for resource, resource_id in resources`: the segment, and "/" and the id
\* when the id is truthy
RECURSIVE ResourcePath(_)
ResourcePath(resources) ==
    IF resources = <<>> THEN <<>>
    ELSE resources[1][1]
            \o (IF Truthy(resources[1][2])
                THEN <<"/">> \o resources[1][2].s ELSE <<>>)
            \o ResourcePath(Tail(resources))

\* GraphClient._build_url(version, resources, odata_query=...): given tells
\* whether the keyword holds the query qq (whose filter, when set, is f).
\* An ODataQuery defines neither __bool__ nor __len__, so `if odata_query`
\* is true for every query object.
BuildUrl(version, resources, given, qq, f) ==
    LET base == GRAPH_BASE_URL \o version \o ResourcePath(resources)
    IN  IF ~given THEN Returned(base)
        ELSE IF QueryStr(qq, f).exc # "" THEN Raised(QueryStr(qq, f).exc)
        ELSE Returned(base \o QueryStr(qq, f).s)

\* built before any _build_url call
NotBuilt == [res |-> NotCalled, resources |-> <<>>, given |-> FALSE]

\* the resources lists the endpoint operations pass
ResourceInputs ==
    { << <<USERS, None>> >>,
      << <<USERS, PyStr(<<"u","1">>)>>, <<MAILS, None>> >> }

-----------------------------------------------------------------------------
(* The values a caller hands to the setters                                *)

\* longest select list and longest constraint list a caller builds
MaxLen == 2

FieldNames == {<<"i","d">>, <<"N","m">>}

Constrains ==
    { Constrain(<<"n","a","m","e">>, "EQ", <<"'","x","'">>),
      Constrain(<<"a","g","e">>, "GT", <<"'","1","0","'">>),
      Constrain(<<"N","m">>, "STARTS_WITH", <<"'","a","'">>) }

\* the lists of at most n distinct elements of S
ListsUpTo(S, n) ==
    { l \in UNION { [1..k -> S] : k \in 0..n } :
        \A i, j \in 1..Len(l) : i # j => l[i] # l[j] }

StrLists == { PyList(l) : l \in ListsUpTo({StrElem(n) : n \in FieldNames}, MaxLen) }
ConLists == { PyList(l) : l \in ListsUpTo({ConElem(c) : c \in Constrains}, MaxLen) }

AnExpand == <<"M","a","N","a","g","e","r">>

CountInputs      == {PyBool(TRUE), PyBool(FALSE), PyInt(0), None}
ExpandInputs     == {PyStr(<<>>), PyStr(AnExpand), PyInt(50)}
FilterInputs     == {PyFilter, None, PyStr(AnExpand)}
SelectInputs     == StrLists \cup {PyStr(<<"i","d">>)}
                        \cup {l \in ConLists : Len(l.l) = 1}
TopInputs        == {PyInt(0), PyInt(50), PyBool(TRUE), PyStr(<<"5","0">>)}
ConstrainsInputs == ConLists \cup {None}
                        \cup {l \in StrLists : Len(l.l) = 1}
ConnectorInputs  == {PyConn(<<"A","N","D">>), PyConn(<<"O","R">>),
                     PyStr(<<"o","r">>), PyInt(1)}

\* every element of list value v has type tag t
AllOfType(v, t) == \A i \in 1..Len(v.l) : v.l[i].t = t

-----------------------------------------------------------------------------
(* Setters: each checks the type of the value and raises ValueError        *)
(* without assigning, or assigns.                                          *)

\* ODataQuery.count setter
SetCount(v) ==
    /\ IF v.t # "bool"
       THEN qres' = "ValueError" /\ q' = q
       ELSE qres' = "ok" /\ q' = [q EXCEPT !.count = v]
    /\ out' = NotCalled
    /\ built' = NotBuilt
    /\ UNCHANGED <<flt, reqVars, tokenVars, apiVars>>

\* ODataQuery.expand setter
SetExpand(v) ==
    /\ IF v.t # "str"
       THEN qres' = "ValueError" /\ q' = q
       ELSE qres' = "ok" /\ q' = [q EXCEPT !.expand = v]
    /\ out' = NotCalled
    /\ built' = NotBuilt
    /\ UNCHANGED <<flt, reqVars, tokenVars, apiVars>>

\* ODataQuery.filter setter
SetFilter(v) ==
    /\ IF v.t # "Filter"
       THEN qres' = "ValueError" /\ q' = q
       ELSE qres' = "ok" /\ q' = [q EXCEPT !.filter = v]
    /\ out' = NotCalled
    /\ built' = NotBuilt
    /\ UNCHANGED <<flt, reqVars, tokenVars, apiVars>>

\* SetSelect without the check of the elements
SetSelect_ListOnly(v) ==
    /\ IF v.t # "list"
       THEN qres' = "ValueError" /\ q' = q
       ELSE qres' = "ok" /\ q' = [q EXCEPT !.select = v]
    /\ out' = NotCalled
    /\ built' = NotBuilt
    /\ UNCHANGED <<flt, reqVars, tokenVars, apiVars>>

\* ODataQuery.select setter
SetSelect(v) ==
    /\ IF v.t # "list" \/ ~AllOfType(v, "str")
       THEN qres' = "ValueError" /\ q' = q
       ELSE qres' = "ok" /\ q' = [q EXCEPT !.select = v]
    /\ out' = NotCalled
    /\ built' = NotBuilt
    /\ UNCHANGED <<flt, reqVars, tokenVars, apiVars>>

\* ODataQuery.top setter
SetTop(v) ==
    /\ IF v.t # "int"
       THEN qres' = "ValueError" /\ q' = q
       ELSE qres' = "ok" /\ q' = [q EXCEPT !.top = v]
    /\ out' = NotCalled
    /\ built' = NotBuilt
    /\ UNCHANGED <<flt, reqVars, tokenVars, apiVars>>

\* Filter.constrains setter
SetConstrains(v) ==
    /\ IF v.t # "list" \/ ~AllOfType(v, "Constrain")
       THEN qres' = "ValueError" /\ flt' = flt
       ELSE qres' = "ok" /\ flt' = [flt EXCEPT !.constrains = v]
    /\ out' = NotCalled
    /\ built' = NotBuilt
    /\ UNCHANGED <<q, reqVars, tokenVars, apiVars>>

\* Filter.logical_connector setter
SetLogicalConnector(v) ==
    /\ IF v.t # "LogicalConnector"
       THEN qres' = "ValueError" /\ flt' = flt
       ELSE qres' = "ok" /\ flt' = [flt EXCEPT !.logical_connector = v]
    /\ out' = NotCalled
    /\ built' = NotBuilt
    /\ UNCHANGED <<q, reqVars, tokenVars, apiVars>>

\* str(query)
Str ==
    /\ out' = QueryStr(q, flt)
    /\ built' = NotBuilt
    /\ UNCHANGED <<q, flt, qres, reqVars, tokenVars, apiVars>>

\* a caller builds the URL of resources, passing the query as the odata_query
\* keyword (given) or passing no such keyword
BuildUrlCall(resources, given) ==
    /\ built' = [res |-> BuildUrl(V1_EP, resources, given, q, flt),
               resources |-> resources, given |-> given]
    /\ out' = NotCalled
    /\ UNCHANGED <<q, flt, qres, reqVars, tokenVars, apiVars>>

QInit ==
    /\ q = NewQuery
    /\ flt = NewFilter
    /\ qres = "none"
    /\ out = NotCalled
    /\ built = NotBuilt

QNext ==
    \/ \E v \in CountInputs : SetCount(v)
    \/ \E v \in ExpandInputs : SetExpand(v)
    \/ \E v \in FilterInputs : SetFilter(v)
    \/ \E v \in SelectInputs : SetSelect(v)
    \/ \E v \in TopInputs : SetTop(v)
    \/ \E v \in ConstrainsInputs : SetConstrains(v)
    \/ \E v \in ConnectorInputs : SetLogicalConnector(v)
    \/ Str
    \/ \E r \in ResourceInputs, given \in BOOLEAN : BuildUrlCall(r, given)

-----------------------------------------------------------------------------
(* client.py: GraphClient._request                                         *)

\* HTTPStatus members named in _request
OK == 200
CREATED == 201
NO_CONTENT == 204

DefaultExpected == {OK, NO_CONTENT, CREATED}

\* status2exception (msgraph_async.common.exceptions): the error kind of a
\* status code, UnknownError for a code the table does not hold
Status2Exception(status) ==
    CASE status = 401 -> "Unauthorized"
      [] status = 403 -> "Forbidden"
      [] status = 404 -> "NotFound"
      [] status = 429 -> "Throttled"
      [] status >= 500 /\ status <= 599 -> "ServerError"
      [] OTHER -> "UnknownError"

\* A response body as the client reads it: the access_token entry of a token
\* reply, the "value" array and the @odata.nextLink entry of a page, and the
\* rest of the content (raw). Absent marks a key the body does not hold.
Absent == PyVal("absent", FALSE, 0, <<>>, <<>>)
Body(access_token, value, next, raw) ==
    [access_token |-> access_token, value |-> value, next |-> next,
     raw |-> raw]
PlainBody(raw) == Body(Absent, <<>>, Absent, raw)
NoBody == PlainBody("none")

\* A response: status, Content-Type header ("json" for a type holding
\* application/json, "other" for any other type, "absent" for no such
\* header) and body. The headers of the response are its ctype.
Response(status, ctype, body) ==
    [status |-> status, ctype |-> ctype, body |-> body]

\* The expected_statuses argument: not given (None) or a collection of codes
NoExpected == [given |-> FALSE, codes |-> {}]
Expected(codes) == [given |-> TRUE, codes |-> codes]

\* `if not expected_statuses`: None and an empty collection are both falsy
EffectiveExpected(expected) ==
    IF ~expected.given \/ expected.codes = {}
    THEN DefaultExpected
    ELSE expected.codes

\* The outcome of a call: kind "return" with (payload, status), or kind
\* "raise" with the exception and, for an API error, the payload and the
\* response headers it carries.
\* payload = [json, body]: the parsed JSON object, or the raw bytes.
NoPayload == [json |-> FALSE, body |-> NoBody]
Return(payload, status) ==
    [kind |-> "return", exc |-> "", payload |-> payload, status |-> status,
     headers |-> "none"]
Raise(exc, payload, headers) ==
    [kind |-> "raise", exc |-> exc, payload |-> payload, status |-> 0,
     headers |-> headers]

\* GraphClient._request, given the response the session delivers
Request(resp, expected) ==
    IF resp.ctype = "absent"
    THEN Raise("KeyError", NoPayload, "none")
    ELSE LET r == [json |-> resp.ctype = "json", body |-> resp.body]
         IN  IF resp.status \in EffectiveExpected(expected)
             THEN Return(r, resp.status)
             ELSE Raise(Status2Exception(resp.status), r, resp.ctype)

-----------------------------------------------------------------------------
(* _request exercised on its own                                           *)

Statuses == {200, 201, 204, 302, 401, 403, 404, 418, 429, 500, 503}
ContentTypes == {"json", "other", "absent"}
PlainBodies == {PlainBody("b1"), PlainBody("b2")}

ExpectedInputs ==
    {NoExpected, Expected({}), Expected({200}), Expected({404}),
     Expected({204, 302}), Expected({500, 418})}

NoResult == [kind |-> "none", exc |-> "", payload |-> NoPayload, status |-> 0,
             headers |-> "none"]

\* rs before any call has completed
NoOutcome ==
    [done |-> FALSE, res |-> NoResult, resp |-> Response(0, "absent", NoBody),
     expected |-> NoExpected]

\* the caller awaits _request(..., expected_statuses=expected)
ReqSend(expected) ==
    /\ rq.pc = "idle"
    /\ rq' = [pc |-> "waiting", expected |-> expected]
    /\ rs' = NoOutcome
    /\ UNCHANGED <<queryVars, tokenVars, apiVars>>

\* the response arrives and _request returns or raises
ReqReceive(resp) ==
    /\ rq.pc = "waiting"
    /\ rs' = [done |-> TRUE, res |-> Request(resp, rq.expected),
              resp |-> resp, expected |-> rq.expected]
    /\ rq' = [rq EXCEPT !.pc = "idle"]
    /\ UNCHANGED <<queryVars, tokenVars, apiVars>>

RInit ==
    /\ rq = [pc |-> "idle", expected |-> NoExpected]
    /\ rs = NoOutcome

RNext ==
    \/ \E e \in ExpectedInputs : ReqSend(e)
    \/ \E st \in Statuses, ct \in ContentTypes, b \in PlainBodies :
          ReqReceive(Response(st, ct, b))

-----------------------------------------------------------------------------
(* client.py: token management                                             *)

\* the callers that may be inside manage_token at the same time
NumCallers == 2
Callers == 1..NumCallers

\* GraphClient.__init__: _token_refresh_interval_sec
DefaultInterval == 3300
\* token_refresh_interval_sec setter: the accepted range
MinInterval == 60
MaxInterval == 3600

\* the access_token values the identity provider may send
AccessTokens ==
    {PyStr(<<>>), PyStr(<<"t","k","A">>), PyStr(<<"t","k","B">>)}

\* the replies to a token request: a token, a JSON body without
\* access_token, a rejected request, a reply that is not JSON, a reply
\* without Content-Type
TokenResponses ==
    { Response(200, "json", Body(t, <<>>, Absent, "token")) : t \in AccessTokens }
        \cup { Response(200, "json", PlainBody("no token")),
               Response(401, "json", PlainBody("denied")),
               Response(200, "other", PlainBody("html")),
               Response(503, "absent", NoBody) }

\* GraphClient.acquire_token, given the reply to its POST
AcquireToken(resp) == Request(resp, NoExpected)

\* GraphClient._refresh_token, given the reply: the value it assigns to
\* _token, or the exception that leaves _token as it was
\* (content['access_token'] raises TypeError on bytes and KeyError on a
\* missing key)
RefreshToken(resp) ==
    LET r == AcquireToken(resp)
    IN  IF r.kind = "raise" THEN [ok |-> FALSE, exc |-> r.exc, token |-> None]
        ELSE IF ~r.payload.json
             THEN [ok |-> FALSE, exc |-> "TypeError", token |-> None]
        ELSE IF r.payload.body.access_token = Absent
             THEN [ok |-> FALSE, exc |-> "KeyError", token |-> None]
        ELSE [ok |-> TRUE, exc |-> "", token |-> r.payload.body.access_token]

\* What the last operation did: its outcome res, the exception behind a
\* failure, and the access_token a token reply delivered (None without one)
EventOf(op, res, exc, tok) == [op |-> op, res |-> res, exc |-> exc, tok |-> tok]
Event(op, res) == EventOf(op, res, "", None)

\* a job as add_job(self._refresh_token, 'interval', seconds=...) adds it;
\* busy while an instance of the job is running
Job(seconds) == [seconds |-> seconds, busy |-> FALSE]

\* SetInterval with both ends of the range excluded
SetInterval_EndsExcluded(value) ==
    /\ IF value <= MinInterval \/ value >= MaxInterval
       THEN /\ ev' = Event("set_interval", "ValueError")
            /\ interval' = interval
       ELSE /\ ev' = Event("set_interval", "ok")
            /\ interval' = value
    /\ UNCHANGED <<token, managed, jobs, running, mpc>>
    /\ UNCHANGED <<queryVars, reqVars, apiVars>>

\* token_refresh_interval_sec setter
SetInterval(value) ==
    /\ IF value < MinInterval \/ value > MaxInterval
       THEN /\ ev' = Event("set_interval", "ValueError")
            /\ interval' = interval
       ELSE /\ ev' = Event("set_interval", "ok")
            /\ interval' = value
    /\ UNCHANGED <<token, managed, jobs, running, mpc>>
    /\ UNCHANGED <<queryVars, reqVars, apiVars>>

\* ManageCall without the `if self._managed` check
ManageCall_NoManagedCheck(p) ==
    /\ mpc[p] = "idle"
    /\ ev' = Event("manage", "request sent")
    /\ mpc' = [mpc EXCEPT ![p] = "acquiring"]
    /\ UNCHANGED <<token, managed, interval, jobs, running>>
    /\ UNCHANGED <<queryVars, reqVars, apiVars>>

\* manage_token up to its first suspension: the managed check, then the
\* token request of _refresh_token is sent
ManageCall(p) ==
    /\ mpc[p] = "idle"
    /\ IF managed
       THEN /\ ev' = Event("manage", "already managed")
            /\ mpc' = mpc
       ELSE /\ ev' = Event("manage", "request sent")
            /\ mpc' = [mpc EXCEPT ![p] = "acquiring"]
    /\ UNCHANGED <<token, managed, interval, jobs, running>>
    /\ UNCHANGED <<queryVars, reqVars, apiVars>>

\* ManageResume with _managed set before the token is acquired
ManageResume_ManagedFirst(p, resp) ==
    /\ mpc[p] = "acquiring"
    /\ mpc' = [mpc EXCEPT ![p] = "idle"]
    /\ managed' = TRUE
    /\ LET r == RefreshToken(resp)
       IN  IF ~r.ok
           THEN /\ ev' = EventOf("manage", "failed", r.exc, None)
                /\ UNCHANGED <<token, jobs, running>>
           ELSE /\ token' = r.token
                /\ jobs' = Append(jobs, Job(interval))
                /\ IF running
                   THEN /\ ev' = EventOf("manage", "failed",
                                       "SchedulerAlreadyRunningError", r.token)
                        /\ UNCHANGED running
                   ELSE /\ running' = TRUE
                        /\ ev' = EventOf("manage", "ok", "", r.token)
    /\ UNCHANGED interval
    /\ UNCHANGED <<queryVars, reqVars, apiVars>>

\* manage_token resumed by the reply: _refresh_token stores the token, the
\* job is added, the scheduler started (start() raises
\* SchedulerAlreadyRunningError on a running scheduler) and _managed set;
\* any exception on the way is re-raised as GraphClientException
ManageResume(p, resp) ==
    /\ mpc[p] = "acquiring"
    /\ mpc' = [mpc EXCEPT ![p] = "idle"]
    /\ LET r == RefreshToken(resp)
       IN  IF ~r.ok
           THEN /\ ev' = EventOf("manage", "failed", r.exc, None)
                /\ UNCHANGED <<token, jobs, running, managed>>
           ELSE /\ token' = r.token
                /\ jobs' = Append(jobs, Job(interval))
                /\ IF running
                   THEN /\ ev' = EventOf("manage", "failed",
                                       "SchedulerAlreadyRunningError", r.token)
                        /\ UNCHANGED <<running, managed>>
                   ELSE /\ running' = TRUE
                        /\ managed' = TRUE
                        /\ ev' = EventOf("manage", "ok", "", r.token)
    /\ UNCHANGED interval
    /\ UNCHANGED <<queryVars, reqVars, apiVars>>

\* the scheduler fires job j: _refresh_token starts and sends its token
\* request (one instance of a job at a time)
TickStart(j) ==
    /\ running
    /\ j \in 1..Len(jobs)
    /\ ~jobs[j].busy
    /\ jobs' = [jobs EXCEPT ![j].busy = TRUE]
    /\ ev' = Event("tick", "request sent")
    /\ UNCHANGED <<token, managed, interval, running, mpc>>
    /\ UNCHANGED <<queryVars, reqVars, apiVars>>

\* TickFinish with the stored token cleared when the refresh fails
TickFinish_ClearsToken(j, resp) ==
    /\ j \in 1..Len(jobs)
    /\ jobs[j].busy
    /\ jobs' = [jobs EXCEPT ![j].busy = FALSE]
    /\ LET r == RefreshToken(resp)
       IN  IF r.ok
           THEN token' = r.token /\ ev' = EventOf("tick", "ok", "", r.token)
           ELSE token' = None /\ ev' = EventOf("tick", "failed", r.exc, None)
    /\ UNCHANGED <<managed, interval, running, mpc>>
    /\ UNCHANGED <<queryVars, reqVars, apiVars>>

\* the reply to job j's token request: _refresh_token stores the token, or
\* raises and the scheduler logs the exception and keeps the job
TickFinish(j, resp) ==
    /\ j \in 1..Len(jobs)
    /\ jobs[j].busy
    /\ jobs' = [jobs EXCEPT ![j].busy = FALSE]
    /\ LET r == RefreshToken(resp)
       IN  IF r.ok
           THEN token' = r.token /\ ev' = EventOf("tick", "ok", "", r.token)
           ELSE token' = token /\ ev' = EventOf("tick", "failed", r.exc, None)
    /\ UNCHANGED <<managed, interval, running, mpc>>
    /\ UNCHANGED <<queryVars, reqVars, apiVars>>

IntervalInputs == {30, 60, 3600, 3601}

TInit ==
    /\ token = None
    /\ managed = FALSE
    /\ interval = DefaultInterval
    /\ jobs = <<>>
    /\ running = FALSE
    /\ mpc = [p \in Callers |-> "idle"]
    /\ ev = Event("init", "ok")

TNext ==
    \/ \E v \in IntervalInputs : SetInterval(v)
    \/ \E p \in Callers : ManageCall(p)
    \/ \E p \in Callers, resp \in TokenResponses : ManageResume(p, resp)
    \/ \E j \in 1..Len(jobs) : TickStart(j)
    \/ \E j \in 1..Len(jobs), resp \in TokenResponses : TickFinish(j, resp)

-----------------------------------------------------------------------------
(* client.py: the authorized decorator and the endpoint calls              *)

Bearer == <<"b","e","a","r","e","r">>
AppJson ==
    <<"a","p","p","l","i","c","a","t","i","o","n","/","j","s","o","n">>

\* DictUpdate that keeps the entries a already holds
DictUpdate_KeepsOld(a, b) ==
    [k \in DOMAIN a \cup DOMAIN b |-> IF k \in DOMAIN a THEN a[k] ELSE b[k]]

\* dict.update: the entries of b replace and extend those of a
DictUpdate(a, b) ==
    [k \in DOMAIN a \cup DOMAIN b |-> IF k \in DOMAIN b THEN b[k] ELSE a[k]]

\* GraphClient._build_auth_header
BuildAuthHeader(t) ==
    IF StartsWith(Lower(t), Bearer)
    THEN "authorization" :> t
    ELSE "authorization" :> (Bearer \o <<" ">> \o t)

\* TokenAvailable without the check
TokenAvailable_Unchecked(stored, tok) == TRUE

\* authorized: `not client._token and not kwargs.get("token")` raises
TokenAvailable(stored, tok) == Truthy(stored) \/ Truthy(tok)

\* authorized: the token of the call
ChosenToken(stored, tok) == IF Truthy(tok) THEN tok ELSE stored

\* authorized: kwargs["_req_headers"]; extra is kwargs.get("extra_headers"),
\* the empty dict when falsy
NoExtra == <<>>
ReqHeaders(stored, tok, extra) ==
    LET h == DictUpdate(BuildAuthHeader(ChosenToken(stored, tok).s),
                        "Content-type" :> AppJson)
    IN  IF DOMAIN extra # {} THEN DictUpdate(h, extra) ELSE h

\* endpoint operations that send one request (every such operation is
\* wrapped by the same decorator and differs only in the request it builds)
Endpoints == {"get_user", "create_subscription", "delete_subscription"}

\* the token keyword argument: absent (None) or a str
ExplicitTokens ==
    {None, PyStr(<<>>), PyStr(<<"t","k","X">>),
     PyStr(<<"B","e","a","r","e","r"," ","t","k","Y">>)}

\* the token keyword argument given to list_all_*
GenTokens == {None, PyStr(<<"t","k","X">>)}

ExtraHeaders ==
    {NoExtra,
     "Content-type" :> <<"t","e","x","t","/","p","l","a","i","n">>,
     "authorization" :> <<"b","e","a","r","e","r"," ","t","k","Z">>}

\* a request as sent: the operation, the next-page URL it targets (None when
\* the URL is built by _build_url) and the headers
Req(op, url, headers) == [op |-> op, url |-> url, headers |-> headers]
NoReq == Req("none", None, NoExtra)

CallOf(pc, op, tok, extra, expected, req) ==
    [pc |-> pc, op |-> op, tok |-> tok, extra |-> extra,
     expected |-> expected, req |-> req]
IdleCall == CallOf("idle", "none", None, NoExtra, NoExpected, NoReq)

\* the foreground task calls an endpoint operation: authorized raises, or
\* builds the headers and the operation sends its request
CallEndpoint(op, tok, extra, expected) ==
    /\ call.pc # "waiting"
    /\ gen.pc = "none"
    /\ IF ~TokenAvailable(token, tok)
       THEN /\ call' = CallOf("refused", op, tok, extra, expected, NoReq)
            /\ ev' = EventOf("call", "failed", "TokenNotAvailable", None)
       ELSE /\ call' = CallOf("waiting", op, tok, extra, expected,
                              Req(op, None, ReqHeaders(token, tok, extra)))
            /\ ev' = Event("call", "request sent")
    /\ UNCHANGED <<token, managed, interval, jobs, running, mpc, gen, pages>>
    /\ UNCHANGED <<queryVars, reqVars>>

\* the reply arrives: _request returns or raises, and so does the operation
EndpointResume(resp) ==
    /\ call.pc = "waiting"
    /\ LET r == Request(resp, call.expected)
       IN  ev' = EventOf("call", r.kind, r.exc, None)
    /\ call' = [call EXCEPT !.pc = "done"]
    /\ UNCHANGED <<token, managed, interval, jobs, running, mpc, gen, pages>>
    /\ UNCHANGED <<queryVars, reqVars>>

-----------------------------------------------------------------------------
(* client.py: the paginated generators list_all_users, list_all_user_mails *)

\* the longest chain of pages the server holds
MaxPages == 3
\* the numbers of items a page may hold
ItemCounts == {0, 2}

\* the URL of page k, as the server writes it into @odata.nextLink
Url(k) == PyStr(<<"u", Digits[k + 1]>>)
PageIndex(url) == CHOOSE k \in 1..(MaxPages + 1) : Url(k) = url

\* the values of NEXT_KEY a last page may carry: no such key, or ''
LastLinks == {Absent, PyStr(<<>>)}

\* A chain of pages: page k holds counts[k] items <<k, i>>, every page but
\* the last links to the next one.
Chain(counts, last) ==
    [k \in 1..Len(counts) |->
        [value |-> [i \in 1..counts[k] |-> <<k, i>>],
         next  |-> IF k < Len(counts) THEN Url(k + 1) ELSE last]]

Chains ==
    { Chain(c, l) : c \in UNION { [1..n -> ItemCounts] : n \in 1..MaxPages },
                    l \in LastLinks }

\* the replies to the request for page k: the page, or an error status
PageReplies(k) ==
    { Response(200, "json", Body(Absent, pages[k].value, pages[k].next, "page")),
      Response(404, "json", PlainBody("error")) }

BulkOp(kind) ==
    IF kind = "users" THEN "list_users_bulk" ELSE "list_user_mails_bulk"
MoreOp(kind) ==
    IF kind = "users" THEN "list_more_users" ELSE "list_more_user_mails"

\* The generator: pc ("none" before the call, "refused" when the call raised,
\* "created", "fetching" while a page request is in flight, "yielded" while
\* suspended at a yield, "done", "error", "abandoned"), its token keyword
\* argument, the last request it sent, the request of its first page (bulk),
\* res["value"] of the current page (buf)
\* and how many of its items were yielded (idx), next_url, the items the
\* consumer has received (got), the pages requested (fetched) and the
\* exception raised to the consumer (err).
NewGen(kind, tok) ==
    [pc |-> "created", kind |-> kind, tok |-> tok, req |-> NoReq,
     bulk |-> NoReq,
     buf |-> <<>>, idx |-> 0, next_url |-> None, got |-> <<>>,
     fetched |-> <<>>, err |-> ""]
NoGen == [NewGen("none", None) EXCEPT !.pc = "none"]

\* Fetch with the headers of the first page request kept for every page
Fetch_FirstHeaders(g, stored, op, url, k) ==
    IF ~TokenAvailable(stored, g.tok)
    THEN [g EXCEPT !.pc = "error", !.err = "TokenNotAvailable"]
    ELSE LET r == Req(op, url, IF k = 1
                               THEN ReqHeaders(stored, g.tok, NoExtra)
                               ELSE g.bulk.headers)
         IN  [g EXCEPT !.pc = "fetching",
                       !.req = r,
                       !.bulk = IF k = 1 THEN r ELSE @,
                       !.fetched = Append(@, k)]

\* list_users_bulk / list_more_users called by the generator for page k:
\* authorized raises, or the request is sent with the headers built from the
\* token of that moment
Fetch(g, stored, op, url, k) ==
    IF ~TokenAvailable(stored, g.tok)
    THEN [g EXCEPT !.pc = "error", !.err = "TokenNotAvailable"]
    ELSE LET r == Req(op, url, ReqHeaders(stored, g.tok, NoExtra))
         IN  [g EXCEPT !.pc = "fetching",
                       !.req = r,
                       !.bulk = IF k = 1 THEN r ELSE @,
                       !.fetched = Append(@, k)]

\* NextPage that never follows next_url
NextPage_Stops(g, stored) == [g EXCEPT !.pc = "done"]

\* `while next_url:` once the items of the current page are exhausted
NextPage(g, stored) ==
    IF Truthy(g.next_url)
    THEN Fetch(g, stored, MoreOp(g.kind), g.next_url, PageIndex(g.next_url))
    ELSE [g EXCEPT !.pc = "done"]

\* list_all_users(**kwargs) / list_all_user_mails(user_id, **kwargs): the
\* authorized wrapper raises, or the generator object is returned
ListAll(kind, tok, chain) ==
    /\ gen.pc = "none"
    /\ call.pc # "waiting"
    /\ call' = IdleCall
    /\ IF ~TokenAvailable(token, tok)
       THEN /\ gen' = [NewGen(kind, tok) EXCEPT !.pc = "refused",
                                                !.err = "TokenNotAvailable"]
            /\ pages' = pages
       ELSE /\ gen' = NewGen(kind, tok)
            /\ pages' = chain
    /\ UNCHANGED <<tokenVars, queryVars, reqVars>>

\* GenNext that also resumes a generator that has raised
GenNext_AfterError ==
    /\ gen.pc \in {"created", "yielded", "error"}
    /\ gen' = IF gen.pc = "created"
              THEN Fetch(gen, token, BulkOp(gen.kind), None, 1)
              ELSE IF gen.idx < Len(gen.buf)
                   THEN [gen EXCEPT !.idx = @ + 1,
                                    !.got = Append(@, gen.buf[gen.idx + 1])]
                   ELSE [NextPage(gen, token) EXCEPT !.err = ""]
    /\ UNCHANGED <<call, pages, tokenVars, queryVars, reqVars>>

\* the consumer asks for the next item: the generator runs to its next yield,
\* to its next page request, or to its end
GenNext ==
    /\ gen.pc \in {"created", "yielded"}
    /\ gen' = IF gen.pc = "created"
              THEN Fetch(gen, token, BulkOp(gen.kind), None, 1)
              ELSE IF gen.idx < Len(gen.buf)
                   THEN [gen EXCEPT !.idx = @ + 1,
                                    !.got = Append(@, gen.buf[gen.idx + 1])]
                   ELSE NextPage(gen, token)
    /\ UNCHANGED <<call, pages, tokenVars, queryVars, reqVars>>

\* GenResume that requests the next page as soon as a page with a link has
\* been read, before its items are yielded
GenResume_Prefetch(resp) ==
    /\ gen.pc = "fetching"
    /\ LET r == Request(resp, NoExpected)
           b == r.payload.body
           g == [gen EXCEPT !.next_url = IF b.next = Absent THEN None ELSE b.next,
                            !.buf = b.value,
                            !.idx = 0]
       IN  gen' = IF r.kind = "raise"
                  THEN [gen EXCEPT !.pc = "error", !.err = r.exc]
                  ELSE IF ~r.payload.json
                       THEN [gen EXCEPT !.pc = "error", !.err = "AttributeError"]
                  ELSE IF g.buf # <<>>
                       THEN [g EXCEPT !.pc = "yielded", !.idx = 1,
                                      !.got = Append(@, g.buf[1]),
                                      !.fetched =
                                          IF Truthy(g.next_url)
                                          THEN Append(@, PageIndex(g.next_url))
                                          ELSE @]
                  ELSE NextPage(g, token)
    /\ UNCHANGED <<call, pages, tokenVars, queryVars, reqVars>>

\* the reply to the page request arrives: _request raises, or the page is
\* read (res.get(NEXT_KEY), res["value"]) and the generator runs on
GenResume(resp) ==
    /\ gen.pc = "fetching"
    /\ LET r == Request(resp, NoExpected)
           b == r.payload.body
           g == [gen EXCEPT !.next_url = IF b.next = Absent THEN None ELSE b.next,
                            !.buf = b.value,
                            !.idx = 0]
       IN  gen' = IF r.kind = "raise"
                  THEN [gen EXCEPT !.pc = "error", !.err = r.exc]
                  ELSE IF ~r.payload.json
                       THEN [gen EXCEPT !.pc = "error", !.err = "AttributeError"]
                  ELSE IF g.buf # <<>>
                       THEN [g EXCEPT !.pc = "yielded", !.idx = 1,
                                      !.got = Append(@, g.buf[1])]
                  ELSE NextPage(g, token)
    /\ UNCHANGED <<call, pages, tokenVars, queryVars, reqVars>>

\* the consumer stops iterating
GenAbandon ==
    /\ gen.pc \in {"created", "yielded"}
    /\ gen' = [gen EXCEPT !.pc = "abandoned"]
    /\ UNCHANGED <<call, pages, tokenVars, queryVars, reqVars>>

EndpointReplies ==
    { Response(st, ct, PlainBody("b1")) :
        st \in {200, 204, 404, 500}, ct \in {"json", "absent"} }

CallExpected == {NoExpected, Expected({204})}

AInit ==
    /\ call = IdleCall
    /\ gen = NoGen
    /\ pages = <<>>

\* one manage_token caller, the scheduler's ticks, and a foreground task that
\* calls endpoint operations and then consumes one paginated sequence
ApiNext ==
    \/ ManageCall(1)
    \/ \E resp \in TokenResponses : ManageResume(1, resp)
    \/ \E j \in 1..Len(jobs) : TickStart(j)
    \/ \E j \in 1..Len(jobs), resp \in TokenResponses : TickFinish(j, resp)
    \/ \E op \in Endpoints, tok \in ExplicitTokens, extra \in ExtraHeaders,
          e \in CallExpected : CallEndpoint(op, tok, extra, e)
    \/ \E resp \in EndpointReplies : EndpointResume(resp)
    \/ \E kind \in {"users", "mails"}, tok \in GenTokens, chain \in Chains :
          ListAll(kind, tok, chain)
    \/ GenNext
    \/ /\ gen.pc = "fetching"
       /\ \E resp \in PageReplies(gen.fetched[Len(gen.fetched)]) : GenResume(resp)
    \/ GenAbandon

-----------------------------------------------------------------------------
Init == QInit /\ RInit /\ TInit /\ AInit

\* the query objects in use
QSpec == Init /\ [][QNext]_vars

\* the assignments to the fields of the query and of the filter
SetterNext ==
    \/ \E v \in CountInputs : SetCount(v)
    \/ \E v \in ExpandInputs : SetExpand(v)
    \/ \E v \in FilterInputs : SetFilter(v)
    \/ \E v \in SelectInputs : SetSelect(v)
    \/ \E v \in TopInputs : SetTop(v)
    \/ \E v \in ConstrainsInputs : SetConstrains(v)
    \/ \E v \in ConnectorInputs : SetLogicalConnector(v)

SetterSpec == Init /\ [][SetterNext]_vars

\* _request in use
ReqSpec == Init /\ [][RNext]_vars

\* token management in use: manage_token callers, the scheduler's ticks and
\* the interval setter
Spec == Init /\ [][TNext]_vars

\* The scheduler fires an interval job again and again, and every token
\* request ends with a reply or an error.
TickFairness ==
    /\ WF_vars(\E j \in 1..Len(jobs) : TickStart(j))
    /\ WF_vars(\E j \in 1..Len(jobs), resp \in TokenResponses :
                  TickFinish(j, resp))

FairSpec == Spec /\ TickFairness

\* the endpoint operations and the paginated generators in use
ApiSpec == Init /\ [][ApiNext]_vars

-----------------------------------------------------------------------------
(* Properties                                                              *)

\* a field of the query has been set when it no longer holds None
IsSet(v) == v.t # "NoneType"

AnyFieldSet(qq) ==
    \/ IsSet(qq.count) \/ IsSet(qq.expand) \/ IsSet(qq.filter)
    \/ IsSet(qq.select) \/ IsSet(qq.top)

\* C6: _request returns (payload, status) exactly when the status is in the
\* expected_statuses the caller supplied (OK, NO_CONTENT, CREATED when the
\* caller supplied none); in every other case it raises the error kind of the
\* status table, carrying the response payload and headers.
C6_ClassifiesByStatus ==
    rs.done =>
        LET wanted == IF rs.expected.given THEN rs.expected.codes
                      ELSE {200, 204, 201}
            payload == [json |-> rs.resp.ctype = "json", body |-> rs.resp.body]
        IN  IF rs.resp.status \in wanted
            THEN /\ rs.res.kind = "return"
                 /\ rs.res.payload = payload
                 /\ rs.res.status = rs.resp.status
            ELSE /\ rs.res.kind = "raise"
                 /\ rs.res.exc = Status2Exception(rs.resp.status)
                 /\ rs.res.payload = payload
                 /\ rs.res.headers = rs.resp.ctype

\* The text C9 describes: one pair per set field, in the order count, expand,
\* filter, select, top.
C9_FilterText(f) ==
    Join(IF IsSet(f.logical_connector)
         THEN <<" ">> \o Lower(f.logical_connector.s) \o <<" ">>
         ELSE <<" ">>,
         [i \in 1..Len(f.constrains.l) |-> ConstrainStr(f.constrains.l[i].c)])

C9_Pairs(qq, f) ==
    (IF IsSet(qq.count)
     THEN << <<"$","c","o","u","n","t","=">>
              \o (IF qq.count.b THEN <<"t","r","u","e">>
                  ELSE <<"f","a","l","s","e">>) >>
     ELSE <<>>)
    \o (IF IsSet(qq.expand)
        THEN << <<"$","e","x","p","a","n","d","=">> \o Lower(qq.expand.s) >>
        ELSE <<>>)
    \o (IF IsSet(qq.filter)
        THEN << <<"$","f","i","l","t","e","r","=">> \o C9_FilterText(f) >>
        ELSE <<>>)
    \o (IF IsSet(qq.select)
        THEN << <<"$","s","e","l","e","c","t","=">>
                 \o Join(<<",">>,
                         [i \in 1..Len(qq.select.l) |-> qq.select.l[i].s]) >>
        ELSE <<>>)
    \o (IF IsSet(qq.top)
        THEN << <<"$","t","o","p","=">> \o IntToStr(qq.top.i) >>
        ELSE <<>>)

\* the filter, when set, has its constraints assigned, and its connector too
\* when it has two constraints or more
C9_FilterComplete(qq, f) ==
    IsSet(qq.filter) =>
        /\ IsSet(f.constrains)
        /\ Len(f.constrains.l) >= 2 => IsSet(f.logical_connector)

\* C9: for every Query with at least one field set, str(query) is '?' followed
\* by one key=value pair per set field and none for an unset field, joined by
\* '&' in the order count, expand, filter, select, top.
C9_SerializesEverySetField ==
    (out.called /\ AnyFieldSet(q) /\ C9_FilterComplete(q, flt)) =>
        out = Returned(<<"?">> \o Join(<<"&">>, C9_Pairs(q, flt)))

\* C10: str(query) returns the empty-query sentinel if and only if no field
\* of the query has been set.
C10_SentinelIffNothingSet ==
    out.called =>
        ((out.exc = "" /\ out.s = EmptyQueryText) <=> ~AnyFieldSet(q))

\* the exceptions a failed token acquisition raises inside _refresh_token
AcquisitionErrors ==
    {"KeyError", "TypeError", "Unauthorized", "Forbidden", "NotFound",
     "Throttled", "ServerError", "UnknownError"}

\* the last step was the first part of a manage_token call
IsManageCall(e) ==
    e.op = "manage" /\ e.res \in {"already managed", "request sent"}

\* C1: once manage_token has succeeded, every later manage_token call fails
\* with "already managed", sends no token request and leaves the token, the
\* managed flag and the scheduled jobs as they were.
C1_SecondManageRejected ==
    [][(managed /\ IsManageCall(ev')) =>
          /\ ev'.res = "already managed"
          /\ mpc' = mpc
          /\ token' = token
          /\ managed' = managed
          /\ jobs' = jobs /\ running' = running]_vars

C1_Witness == managed /\ ev = Event("manage", "already managed")

\* C2: when the token acquisition inside manage_token fails, manage_token
\* fails, and the managed flag, the stored token and the scheduler are as
\* they were: no partial state.
C2_FailedAcquisitionNoPartialState ==
    [][(\E p \in Callers : mpc[p] = "acquiring" /\ mpc'[p] = "idle")
        /\ ev'.exc \in AcquisitionErrors =>
          /\ ev'.op = "manage" /\ ev'.res = "failed"
          /\ managed' = managed
          /\ token' = token
          /\ jobs' = jobs /\ running' = running]_vars

C2_Witness ==
    /\ ev.op = "manage" /\ ev.res = "failed" /\ ev.exc \in AcquisitionErrors
    /\ ~managed /\ token = None /\ jobs = <<>> /\ ~running

\* C3: whenever the client is managed, the stored token is present and
\* non-empty.
C3_ManagedTokenNonEmpty ==
    managed => (token.t = "str" /\ token.s # <<>>)

\* C4: a failed refresh tick leaves the stored token, the managed flag and
\* the schedule as they were; a tick that succeeds stores the token it
\* acquired; and after a failed tick a later tick always fires.
C4_TickFailureNonFatal ==
    /\ [][(ev'.op = "tick" /\ ev'.res = "failed") =>
            /\ token' = token
            /\ managed' = managed /\ running' = running
            /\ Len(jobs') = Len(jobs)
            /\ \A j \in 1..Len(jobs) : jobs'[j].seconds = jobs[j].seconds]_vars
    /\ [][(ev'.op = "tick" /\ ev'.res = "ok") => token' = ev'.tok]_vars
    /\ [](managed => running /\ jobs # <<>>)
    /\ [](ev = Event("tick", "request sent") => <>(ev.op = "tick" /\ ev.res # "request sent"))
    /\ []((ev.op = "tick" /\ ev.res = "failed") =>
            <>(ev = Event("tick", "request sent")))

C4_Witness ==
    /\ ev.op = "tick" /\ ev.res = "failed"
    /\ managed /\ running /\ Truthy(token)
    /\ \E j \in 1..Len(jobs) : ~jobs[j].busy

\* the items of all the pages of ps, in page order
RECURSIVE AllItems(_)
AllItems(ps) ==
    IF ps = <<>> THEN <<>>
    ELSE AllItems(SubSeq(ps, 1, Len(ps) - 1)) \o ps[Len(ps)].value

IsPrefix(a, b) == Len(a) <= Len(b) /\ a = SubSeq(b, 1, Len(a))

HasAuthorization(req) ==
    /\ "authorization" \in DOMAIN req.headers
    /\ req.headers["authorization"] # <<>>

\* C5: an authorized operation (list_all_* included) called with no explicit
\* token on a client without a stored token raises "token not available" and
\* sends nothing; every request such an operation sends carries an
\* authorization header.
C5_NoRequestWithoutToken ==
    /\ [][(/\ call.pc # "waiting" /\ call' # call /\ call'.pc # "idle"
           /\ ~Truthy(call'.tok) /\ ~Truthy(token)) =>
            /\ call'.pc = "refused"
            /\ call'.req = NoReq
            /\ ev' = EventOf("call", "failed", "TokenNotAvailable", None)]_vars
    /\ [][(/\ gen.pc = "none" /\ gen'.pc # "none"
           /\ ~Truthy(gen'.tok) /\ ~Truthy(token)) =>
            /\ gen'.pc = "refused" /\ gen'.err = "TokenNotAvailable"
            /\ gen'.req = NoReq /\ gen'.fetched = <<>>]_vars
    /\ [][(gen'.fetched # gen.fetched \/ gen'.req # gen.req) =>
            /\ Truthy(gen.tok) \/ Truthy(token)
            /\ gen'.pc = "fetching"]_vars
    /\ [](call.pc = "waiting" => HasAuthorization(call.req))
    /\ [](gen.pc = "fetching" => HasAuthorization(gen.req))

C5_Witness ==
    /\ call.pc = "refused" /\ ~Truthy(call.tok) /\ ~Truthy(token)
    /\ ev = EventOf("call", "failed", "TokenNotAvailable", None)

\* C7: over a chain of pages in which every page but the last carries a
\* continuation URL, the generator yields the items of all pages in page and
\* item order, requests each page once, and then ends: what the consumer has
\* received is always a prefix of all the items, the pages requested are
\* 1, 2, ... in order, every step of the generator yields an item, requests
\* a page or ends the sequence, and at the end nothing is missing.
C7_YieldsAllPagesInOrder ==
    /\ [](IsPrefix(gen.got, AllItems(pages)))
    /\ [](gen.fetched = [k \in 1..Len(gen.fetched) |-> k]
            /\ Len(gen.fetched) <= Len(pages))
    /\ [](gen.pc = "done" =>
            /\ gen.got = AllItems(pages)
            /\ Len(gen.fetched) = Len(pages))
    /\ [][(gen.pc \in {"created", "yielded", "fetching"} /\ gen' # gen) =>
            \/ gen'.pc \in {"done", "error", "abandoned"}
            \/ Len(gen'.got) + Len(gen'.fetched)
                  = Len(gen.got) + Len(gen.fetched) + 1]_vars
    /\ [][(/\ gen.pc = "yielded" /\ gen.got = AllItems(pages)
           /\ Len(gen.fetched) = Len(pages) /\ gen' # gen) =>
            gen'.pc \in {"done", "abandoned"}]_vars

C7_Witness ==
    /\ gen.pc = "done" /\ Len(pages) = 3
    /\ gen.got = <<<<1, 1>>, <<1, 2>>, <<2, 1>>, <<2, 2>>, <<3, 1>>, <<3, 2>>>>
    /\ gen.fetched = <<1, 2, 3>>

\* the page whose fetch raised: the one requested last, or the next one when
\* the authorization check raised before a request was sent
FailedPage(g) ==
    IF g.err = "TokenNotAvailable" THEN Len(g.fetched) + 1 ELSE Len(g.fetched)

\* C8: when the fetch of page k raises, the consumer has received exactly the
\* items of pages 1..k-1, and afterwards the generator requests no page and
\* yields nothing.
C8_ErrorAfterEarlierPages ==
    /\ [](gen.pc = "error" =>
            /\ FailedPage(gen) >= 1
            /\ gen.got = AllItems(SubSeq(pages, 1, FailedPage(gen) - 1)))
    /\ [][gen.pc = "error" => gen' = gen]_vars

C8_Witness ==
    /\ gen.pc = "error" /\ gen.err = "NotFound"
    /\ gen.fetched = <<1, 2>>
    /\ gen.got = <<<<1, 1>>, <<1, 2>>>>

\* C11: a URL built with a Query that has no field set equals the URL built
\* with no Query at all (base URL, version, resource segments and ids); the
\* serialized fragment is appended only when the Query has a field set.
C11_EmptyQueryAppendsNothing ==
    built.res.called =>
        LET base == GRAPH_BASE_URL \o V1_EP \o ResourcePath(built.resources)
        IN  /\ (~built.given \/ ~AnyFieldSet(q)) => built.res = Returned(base)
            /\ (built.res.exc = "" /\ built.res.s # base) =>
                    (built.given /\ AnyFieldSet(q))

\* C12: the refresh interval is within [60, 3600] in every reachable state;
\* an assignment of a value outside the range raises, sends nothing and
\* leaves the interval as it was; an assignment of a value inside the range
\* (60 and 3600 included) is accepted while the client is unmanaged.
C12_IntervalInRange ==
    /\ [](interval >= 60 /\ interval <= 3600)
    /\ [][\A v \in IntervalInputs :
            SetInterval(v) =>
                IF v < 60 \/ v > 3600
                THEN /\ ev' = Event("set_interval", "ValueError")
                     /\ interval' = interval
                     /\ mpc' = mpc /\ jobs' = jobs /\ token' = token
                ELSE ~managed =>
                        /\ ev' = Event("set_interval", "ok")
                        /\ interval' = v]_vars

C12_Witness ==
    /\ ev = Event("set_interval", "ValueError")
    /\ interval = 60
    /\ ~managed

\* C13: once manage_token has succeeded the configured interval is the
\* period of the scheduled refresh job, whatever is assigned to the interval
\* afterwards.
C13_IntervalFixedOnceManaged ==
    managed => \A j \in 1..Len(jobs) : jobs[j].seconds = interval

\* the value has the type and shape the field takes
C14_WellTyped(field, v) ==
    CASE field = "count"      -> v.t = "bool"
      [] field = "expand"     -> v.t = "str"
      [] field = "filter"     -> v.t = "Filter"
      [] field = "select"     ->
            v.t = "list" /\ \A i \in 1..Len(v.l) : v.l[i].t = "str"
      [] field = "top"        -> v.t = "int"
      [] field = "constrains" ->
            v.t = "list" /\ \A i \in 1..Len(v.l) : v.l[i].t = "Constrain"
      [] field = "logical_connector" -> v.t = "LogicalConnector"

C14_Rejected == qres' = "ValueError" /\ q' = q /\ flt' = flt

\* C14: an assignment of a wrongly typed or wrongly shaped value to a field
\* of the query or of the filter raises at once and leaves the query and the
\* filter as they were.
C14_SettersRejectWrongTypes ==
    [][/\ \A v \in CountInputs :
            (SetCount(v) /\ ~C14_WellTyped("count", v)) => C14_Rejected
       /\ \A v \in ExpandInputs :
            (SetExpand(v) /\ ~C14_WellTyped("expand", v)) => C14_Rejected
       /\ \A v \in FilterInputs :
            (SetFilter(v) /\ ~C14_WellTyped("filter", v)) => C14_Rejected
       /\ \A v \in SelectInputs :
            (SetSelect(v) /\ ~C14_WellTyped("select", v)) => C14_Rejected
       /\ \A v \in TopInputs :
            (SetTop(v) /\ ~C14_WellTyped("top", v)) => C14_Rejected
       /\ \A v \in ConstrainsInputs :
            (SetConstrains(v) /\ ~C14_WellTyped("constrains", v))
                => C14_Rejected
       /\ \A v \in ConnectorInputs :
            (SetLogicalConnector(v) /\ ~C14_WellTyped("logical_connector", v))
                => C14_Rejected]_vars

C14_Witness ==
    /\ qres = "ValueError"
    /\ q.top = PyInt(50) /\ Len(q.select.l) = 2
    /\ flt.logical_connector = PyConn(<<"A","N","D">>)
    /\ Len(flt.constrains.l) = 2

\* the authorization value of token text t: t itself when its first six
\* characters spell "bearer" in any letter case, "bearer " and t otherwise
C15_Authorization(t) ==
    IF Len(t) >= 6 /\ \A i \in 1..6 : LowerChar(t[i]) = Bearer[i]
    THEN t
    ELSE <<"b","e","a","r","e","r"," ">> \o t

\* the headers of a call made with token keyword tok and extra headers extra
\* while the client stores the token stored
C15_Headers(stored, tok, extra) ==
    LET supplied == tok.t = "str" /\ tok.s # <<>>
        auth == C15_Authorization(IF supplied THEN tok.s ELSE stored.s)
    IN  [k \in {"authorization", "Content-type"} \cup DOMAIN extra |->
            IF k \in DOMAIN extra THEN extra[k]
            ELSE IF k = "authorization" THEN auth
            ELSE <<"a","p","p","l","i","c","a","t","i","o","n","/",
                   "j","s","o","n">>]

\* C15: the request of an authorized call carries the authorization header
\* of the explicit token when one was supplied and of the stored token
\* otherwise, and the JSON content type, each replaced by the caller's extra
\* header of the same key.
C15_HeadersSent ==
    [][(call.pc # "waiting" /\ call'.pc = "waiting") =>
          call'.req.headers = C15_Headers(token, call'.tok, call'.extra)]_vars

C15_Witness ==
    /\ call.pc = "waiting"
    /\ call.tok = None
    /\ token = PyStr(<<"t","k","A">>)
    /\ call.extra = ("Content-type" :> <<"t","e","x","t","/","p","l","a","i","n">>)
    /\ call.req.headers["authorization"] = <<"b","e","a","r","e","r"," ","t","k","A">>
    /\ call.req.headers["Content-type"] = <<"t","e","x","t","/","p","l","a","i","n">>

\* C16: the pages are requested one at a time and in order; page k+1 is
\* requested only once every item of pages 1..k has been handed to the
\* consumer, no item of a page not yet requested is handed over, and a
\* consumer that has stopped causes no further request.
C16_NextPageOnlyAfterItems ==
    /\ [](gen.fetched # <<>> =>
            LET k == Len(gen.fetched)
            IN  /\ gen.fetched = [i \in 1..k |-> i]
                /\ IsPrefix(AllItems(SubSeq(pages, 1, k - 1)), gen.got)
                /\ IsPrefix(gen.got, AllItems(SubSeq(pages, 1, k))))
    /\ [][gen'.fetched # gen.fetched =>
            /\ Len(gen'.fetched) = Len(gen.fetched) + 1
            /\ gen.got = AllItems(SubSeq(pages', 1, Len(gen.fetched)))
            /\ gen'.pc = "fetching"]_vars
    /\ [][gen.pc = "abandoned" => gen' = gen]_vars

C16_Witness ==
    /\ gen.pc = "abandoned"
    /\ Len(pages) = 3
    /\ gen.fetched = <<1, 2>>
    /\ gen.got = <<<<1, 1>>, <<1, 2>>, <<2, 1>>>>

\* C17: once the client is managed, an endpoint call made without an
\* explicit token is never refused with "token not available": its request
\* is sent with the token stored at that moment.
C17_ManagedCallNeverRefused ==
    managed =>
        /\ ~(/\ ev = EventOf("call", "failed", "TokenNotAvailable", None)
              /\ call.pc = "refused")
        /\ (/\ ev = Event("call", "request sent")
             /\ call.tok = None
             /\ "authorization" \notin DOMAIN call.extra) =>
              call.req.headers["authorization"]
                  \in {C15_Authorization(t.s) : t \in AccessTokens \ {PyStr(<<>>)}}

\* C18: str(query) returns a string for every query and filter built through
\* construction and accepted assignments.
C18_SerializingNeverFails ==
    out.called => out.exc = ""

\* C19: whatever the interleaving of manage_token calls, at most one refresh
\* job is scheduled, and a call that fails has stored no token.
C19_AtMostOneJob ==
    /\ Len(jobs) <= 1
    /\ (ev.op = "manage" /\ ev.res = "failed") => ev.tok = None

\* C20: every page request of a paginated sequence carries the token chosen
\* when that page is requested: the explicit token when the caller passed
\* one, the token stored at that moment otherwise.
C20_TokenChosenPerPage ==
    [][gen'.fetched # gen.fetched =>
          LET supplied == gen'.tok.t = "str" /\ gen'.tok.s # <<>>
          IN  gen'.req.headers["authorization"] =
                  C15_Authorization(IF supplied THEN gen'.tok.s ELSE token.s)]_vars

\* the token was refreshed between the requests of pages 1 and 2
C20_Witness ==
    /\ gen.tok = None
    /\ gen.fetched = <<1, 2>>
    /\ gen.bulk.headers["authorization"] =
           <<"b","e","a","r","e","r"," ","t","k","A">>
    /\ gen.req.headers["authorization"] =
           <<"b","e","a","r","e","r"," ","t","k","B">>

====
